---- MODULE Spec2Model ----
(***************************************************************************)
(* A model of ninjarouter (router.go): the per-method route tree built by  *)
(* add/addnode, the lookup and dispatch of Mux.ServeHTTP, the not-found    *)
(* path, and the shared parameter store (vars.sessions) with its mutex.    *)
(*                                                                         *)
(* Strings are sequences of one-character strings, so that trim, split,    *)
(* the slicing of the trailing slash and strings.TrimPrefix are computed   *)
(* and not assumed.                                                        *)
(***************************************************************************)
EXTENDS Integers, Sequences, FiniteSets, TLC

VARIABLES
    root,       \* Mux.root: method -> tree; a tree maps a position (the keys from the root) to a node
    NotFound,   \* Mux.NotFound: TRUE when a custom handler is set, FALSE when nil
    nreg,       \* number of registration calls made so far (names the handler funcs of each call)
    regs,       \* history: the calls of Mux.add made so far, in order
    pc,         \* the sequential caller of Spec: "idle" or "done"
    resp,       \* what the last ServeHTTP call of the sequential caller did
    sessions,   \* vars.sessions: request identity -> bindings
    mutex,      \* vars.Mutex: the worker holding it, or 0
    wk,         \* the concurrent workers of SpecVars: each one's position in ServeHTTP
    got,        \* what the last call of Var looked up and returned
    Timeout,    \* Mux.Timeout, in seconds
    listener,   \* Mux.listener: the ninjaListener value kept by the Mux
    serving,    \* the ninjaListener value handed to srv.Serve by Listen
    ln,         \* the net.Listener both values wrap: "none", "open" or "closed"
    active,     \* Mux.active: the set conns and the state of its RWMutex
    idle,       \* Mux.idle: the set conns and the state of its RWMutex
    conn,       \* each connection: last state reported, and where its ConnState call stands
    netClosed,  \* connections on which conn.Close() was called
    cls,        \* the caller of Mux.Close: its position, and history of what it did
    Timed       \* Mux.Timed: whether each handler call is timed and logged

lookupVars == <<got>>

connVars == <<Timeout, listener, serving, ln, active, idle, conn, netClosed, cls>>

logVars == <<Timed>>

vars == <<root, NotFound, nreg, regs, pc, resp, sessions, mutex, wk, lookupVars, connVars,
          logVars>>

----------------------------------------------------------------------------
(* Bounds and input sets *)

MaxRoutes == 2      \* registration calls per behaviour
ChainLen == 2       \* handler funcs passed to a registration call
NumWorkers == 2     \* concurrent request-serving workers in SpecVars

Workers == 1..NumWorkers

Methods == {"GET", "HEAD"}

Slash == "/"
Star == <<"*">>
sa == <<"a">>
sb == <<"b">>
px == <<":", "x">>
py == <<":", "y">>

RECURSIVE MkPath(_)
\* "/" followed by the segments joined with "/"
MkPath(segs) ==
    IF segs = <<>> THEN <<>>
    ELSE <<Slash>> \o Head(segs) \o MkPath(Tail(segs))

RootPath == <<Slash>>

\* The patterns handed to the registration calls.
Patterns ==
    { MkPath(<<sa>>), MkPath(<<sa, sb>>), MkPath(<<sa, px>>), MkPath(<<sa, py>>),
      MkPath(<<sa, Star>>), MkPath(<<sa, px, sb>>), MkPath(<<sa, px, Star>>),
      MkPath(<<px, py>>), MkPath(<<Star>>) }

\* The segments a request path is made of.
ReqSegs == {sa, sb, px}

ShortSegLists ==
    {<<s>> : s \in ReqSegs} \cup {<<s, t>> : s \in ReqSegs, t \in ReqSegs}

ReqSegLists ==
    ShortSegLists \cup {<<sa, s, t>> : s \in ReqSegs, t \in ReqSegs}

\* Request paths: the root, the plain paths, and paths with a trailing slash.
ReqPaths ==
    {RootPath, <<Slash, Slash>>}
    \cup {MkPath(l) : l \in ReqSegLists}
    \cup {MkPath(l) \o <<Slash>> : l \in ShortSegLists}

\* The handler funcs passed to the n-th registration call.
HandlerFuncs(n) == [j \in 1..ChainLen |-> [reg |-> n, idx |-> j]]

----------------------------------------------------------------------------
(* Segment utilities *)

RECURSIVE TrimLeft(_, _)
TrimLeft(s, c) ==
    IF s # <<>> /\ Head(s) = c THEN TrimLeft(Tail(s), c) ELSE s

RECURSIVE TrimRight(_, _)
TrimRight(s, c) ==
    IF s # <<>> /\ s[Len(s)] = c THEN TrimRight(SubSeq(s, 1, Len(s) - 1), c) ELSE s

\* trim(s, "/"): s without its leading and trailing separators
trim(s, c) == TrimRight(TrimLeft(s, c), c)

RECURSIVE SplitFrom(_, _, _, _)
\* acc: segments found so far; cur: the segment being read
SplitFrom(s, c, acc, cur) ==
    IF s = <<>> THEN (IF cur = <<>> THEN acc ELSE Append(acc, cur))
    ELSE IF Head(s) = c
         THEN SplitFrom(Tail(s), c, IF cur = <<>> THEN acc ELSE Append(acc, cur), <<>>)
         ELSE SplitFrom(Tail(s), c, acc, Append(cur, Head(s)))

\* split(s, "/"): the ordered sequence of the non-empty segments of s
split(s, c) == SplitFrom(s, c, <<>>, <<>>)

\* strings.TrimPrefix(k, ":")
TrimPrefix(k, c) == IF k # <<>> /\ Head(k) = c THEN Tail(k) ELSE k

----------------------------------------------------------------------------
(* Maps *)

EmptyMap == [k \in {} |-> <<>>]

MapSet(m, k, v) == [x \in (DOMAIN m) \cup {k} |-> IF x = k THEN v ELSE m[x]]

MapDelete(m, k) == [x \in (DOMAIN m) \ {k} |-> m[x]]

----------------------------------------------------------------------------
(* The route tree *)

\* The sentinel pattern of a pass-through node.
Empty == <<"e", "m", "p", "t", "y">>

\* A nil *Handler is <<>>, a non-nil one is <<h>>.
NilHandler == <<>>

Handler(patt, handlers) ==
    [patt |-> patt,
     parts |-> split(trim(patt, Slash), Slash),
     wild |-> SubSeq(patt, Len(patt), Len(patt)) = Star,
     handlers |-> handlers]

node(pattern, handler) == [pattern |-> pattern, handler |-> handler]

\* &node{"", nil, make(map[string]*node)}
RootNode == node(<<>>, NilHandler)

NewTree == [pos \in {<<>>} |-> RootNode]

IsPrefix(p, q) == Len(p) <= Len(q) /\ SubSeq(q, 1, Len(p)) = p

\* nd.children: the keys of the children of the node at position nd
Children(t, nd) == {q[Len(q)] : q \in {r \in DOMAIN t : Len(r) = Len(nd) + 1 /\ IsPrefix(nd, r)}}

HasChild(t, nd, k) == (nd \o <<k>>) \in DOMAIN t

\* A variant of SetChild that leaves a child that already has a handler in place.
SetChildKeepOld(t, nd, k, n) ==
    LET pos == nd \o <<k>>
        keep == {q \in DOMAIN t : ~IsPrefix(pos, q)}
    IN IF pos \in DOMAIN t /\ t[pos].handler # <<>>
       THEN t
       ELSE [q \in keep \cup {pos} |-> IF q = pos THEN n ELSE t[q]]

\* nd.children[k] = n, where n is a node with no children: whatever hung
\* below the old child is no longer reachable from the tree.
SetChild(t, nd, k, n) ==
    LET pos == nd \o <<k>>
        keep == {q \in DOMAIN t : ~IsPrefix(pos, q)}
    IN [q \in keep \cup {pos} |-> IF q = pos THEN n ELSE t[q]]

RECURSIVE AddNodeFrom(_, _, _, _, _)
\* The loop of addnode from its i-th iteration (1-based) at node nd.
AddNodeFrom(t, nd, segments, i, n) ==
    IF i > Len(segments) THEN t
    ELSE LET seg == segments[i]
             ok == HasChild(t, nd, seg)
         IN IF seg = Star THEN SetChild(t, nd, Star, n)
            ELSE IF ~ok /\ i < Len(segments)
                 THEN AddNodeFrom(SetChild(t, nd, seg, node(Empty, NilHandler)),
                                  nd \o <<seg>>, segments, i + 1, n)
            ELSE IF i = Len(segments)
                 THEN SetChild(t, nd, seg, n)
            ELSE AddNodeFrom(t, nd \o <<seg>>, segments, i + 1, n)

addnode(t, n) == AddNodeFrom(t, <<>>, split(trim(n.pattern, Slash), Slash), 1, n)

\* Mux.add: the root map after registering patt for meth
add(rt, meth, patt, handlers) ==
    LET h == Handler(patt, handlers)
        t == IF meth \in DOMAIN rt THEN rt[meth] ELSE NewTree
        n == node(patt, <<h>>)
    IN [m \in (DOMAIN rt) \cup {meth} |-> IF m = meth THEN addnode(t, n) ELSE rt[m]]

----------------------------------------------------------------------------
(* Lookup: the segment loop of Mux.ServeHTTP *)

\* A nil *node is <<>>, a non-nil one is <<pos>>.
NilNode == <<>>

\* The children of nd whose key begins with ':'
NamedChildren(t, nd) == {k \in Children(t, nd) : Len(k) > 0 /\ k[1] = ":"}

\* One entry of the walk's record: the node the segment was looked up at,
\* the segment, and the key of the child taken ("none" when no child was).
Pick(nd, seg, kind, key) == [at |-> nd, seg |-> seg, kind |-> kind, key |-> key]

WalkEnd(nd, vrs, trail) == [kind |-> "end", nd |-> nd, vrs |-> vrs, trail |-> trail]

WalkNotFound(vrs, trail) == [kind |-> "notfound", nd |-> NilNode, vrs |-> vrs, trail |-> trail]

\* A variant of childKind that looks for a named child before the "*" child.
childKindNamedFirst(t, nd, seg) ==
    IF HasChild(t, nd, seg) THEN "literal"
    ELSE IF NamedChildren(t, nd) # {} THEN "named"
    ELSE IF HasChild(t, nd, Star) THEN "wild"
    ELSE "none"

\* Which child of nd the loop body takes for seg: the child keyed by the
\* segment itself, else the "*" child, else a child whose key begins with
\* ':', else none.
childKind(t, nd, seg) ==
    IF HasChild(t, nd, seg) THEN "literal"
    ELSE IF HasChild(t, nd, Star) THEN "wild"
    ELSE IF NamedChildren(t, nd) # {} THEN "named"
    ELSE "none"

RECURSIVE WalkFrom(_, _, _, _, _, _)
\* The outcomes of the segment loop from its i-th iteration (1-based) with the
\* current node nd and the bindings vrs. The range over nd.children visits the
\* keys in an unspecified order, so each named child is a possible outcome.
WalkFrom(t, segments, i, nd, vrs, trail) ==
    IF i > Len(segments) THEN {WalkEnd(<<nd>>, vrs, trail)}
    ELSE
    LET seg == segments[i] IN
    LET kind == childKind(t, nd, seg) IN
    IF kind # "literal"
    THEN IF kind = "wild"
         THEN {WalkEnd(<<nd \o <<Star>>>>, vrs, Append(trail, Pick(nd, seg, "wild", Star)))}
         ELSE LET named == NamedChildren(t, nd)
                  \* the node and bindings after the range over the children
                  after == IF named = {}
                           THEN {[nd |-> nd, vrs |-> vrs, pick |-> Pick(nd, seg, "none", <<>>)]}
                           ELSE {[nd |-> nd \o <<k>>,
                                  vrs |-> MapSet(vrs, TrimPrefix(k, ":"), seg),
                                  pick |-> Pick(nd, seg, "named", k)] : k \in named}
              IN UNION { IF DOMAIN a.vrs # {}
                         THEN IF i - 1 > Len(segments)
                              THEN {WalkEnd(<<a.nd>>, a.vrs, Append(trail, a.pick))}
                              ELSE WalkFrom(t, segments, i + 1, a.nd, a.vrs, Append(trail, a.pick))
                         ELSE {WalkNotFound(a.vrs, Append(trail, a.pick))}
                       : a \in after }
    ELSE
    LET xnode == nd \o <<seg>>
        trail2 == Append(trail, Pick(nd, seg, "literal", seg))
    IN IF t[xnode].pattern = Empty /\ i = Len(segments)
       THEN IF HasChild(t, xnode, Star)
            THEN {WalkEnd(<<xnode \o <<Star>>>>, vrs, trail2)}
            ELSE {WalkEnd(NilNode, vrs, trail2)}
       ELSE WalkFrom(t, segments, i + 1, xnode, vrs, trail2)

\* The outcomes of the lookup of path in the tree t.
Walk(t, path) == WalkFrom(t, split(trim(path, Slash), Slash), 1, <<>>, EmptyMap, <<>>)

----------------------------------------------------------------------------
(* The parameter store *)

\* vars.sessions[r] = vrs
BindVars(s, r, vrs) == MapSet(s, r, vrs)

\* delete(vars.sessions, r)
deleteVars(s, r) == MapDelete(s, r)

\* Vars(r): the bindings of r, or an empty map
Vars(s, r) == IF r \in DOMAIN s THEN s[r] ELSE EmptyMap

\* The empty string
EmptyString == <<>>

\* Var(r, n): the value bound to n for r, or the empty string
Var(s, r, n) ==
    IF r \in DOMAIN s
    THEN IF n \in DOMAIN s[r] THEN s[r][n] ELSE EmptyString
    ELSE EmptyString

\* No call of Var was made yet.
NoLookup ==
    [made |-> FALSE, r |-> [of |-> 0, copy |-> 0], n |-> EmptyString,
     session |-> <<>>, v |-> EmptyString]

\* A variant of WithContext whose request values are not distinct between callers.
WithContextShared(who, j) == [of |-> 0, copy |-> j]

\* r.WithContext(ctx): a new request value, distinct from every other one
\* that is alive; who is the dispatch that made it and j the iteration.
WithContext(who, j) == [of |-> who, copy |-> j]

----------------------------------------------------------------------------
(* Dispatch: Mux.ServeHTTP *)

\* What ServeHTTP decides before its handler loop: a redirect, the not-found
\* path, a nil dereference of nd.handler (the walk ended at a node without a
\* handler), or the handler chain of the node the walk ended at.
Routed(out, location, w, chain) ==
    [out |-> out, location |-> location, nd |-> w.nd, vrs |-> w.vrs,
     trail |-> w.trail, chain |-> chain]

NoWalk == WalkNotFound(EmptyMap, <<>>)

\* l > 1 && r.URL.Path[l-1:] == "/"
trailingSlash(path) == Len(path) > 1 /\ SubSeq(path, Len(path), Len(path)) = <<Slash>>

\* A variant of stripSlash that redirects to the path as it came.
stripSlashKept(path) == path

\* r.URL.Path[:l-1]
stripSlash(path) == SubSeq(path, 1, Len(path) - 1)

Route(rt, meth, path) ==
    IF trailingSlash(path)
    THEN {Routed("redirect", stripSlash(path), NoWalk, <<>>)}
    ELSE IF meth \notin DOMAIN rt
    THEN {Routed("notfound", <<>>, NoWalk, <<>>)}
    ELSE { IF w.kind = "notfound" \/ w.nd = NilNode
           THEN Routed("notfound", <<>>, w, <<>>)
           ELSE LET n == rt[meth][w.nd[1]] IN
                IF n.handler = NilHandler
                THEN Routed("panic", <<>>, w, <<>>)
                ELSE Routed("matched", <<>>, w, n.handler[1].handlers)
         : w \in Walk(rt[meth], path) }

\* http.Redirect(w, r, url, 301)
Redirect(url, code) == <<[ev |-> "Redirect", code |-> code, location |-> url]>>

\* A variant of notFound that calls the custom handler without writing 404 first.
notFoundNoHeader(nf) ==
    IF nf
    THEN <<[ev |-> "NotFound"]>>
    ELSE <<[ev |-> "http.NotFound", code |-> 404]>>

\* Mux.notFound
notFound(nf) ==
    IF nf
    THEN <<[ev |-> "WriteHeader", code |-> 404], [ev |-> "NotFound"]>>
    ELSE <<[ev |-> "http.NotFound", code |-> 404]>>

\* A handler func of a chain is called with the request r; it reads Vars(r).
Invoke(h, r, seen) == [ev |-> "handler", h |-> h, r |-> r, seen |-> seen]

\* m.Log(fmt.Sprintf("[%s] %q %v\n", r.Method, r.URL.String(), t2.Sub(t1)))
Log(r, meth, path) == [ev |-> "Log", r |-> r, meth |-> meth, url |-> path]

\* A variant of timedLog that logs whether or not Timed is set.
timedLogAlways(timed, r, meth, path) == <<Log(r, meth, path)>>

\* What follows the return of a handler called with r: the call of m.Log
\* when m.Timed is set, nothing otherwise.
timedLog(timed, r, meth, path) ==
    IF timed THEN <<Log(r, meth, path)>> ELSE <<>>

\* A variant of deferCall that keeps only the latest deferred call.
deferCallLatestOnly(deferred, r) == <<r>>

\* defer deleteVars(r): deferred calls run last one first
deferCall(deferred, r) == <<r>> \o deferred

RECURSIVE RunChain(_, _, _, _, _, _, _)
\* The handler loop from its j-th iteration, run without interleaving:
\* the events, the store and the deferred deleteVars calls it leaves.
RunChain(s, chain, j, vrs, who, events, deferred) ==
    IF j > Len(chain) THEN [s |-> s, events |-> events, deferred |-> deferred]
    ELSE LET r == WithContext(who, j)
             bound == DOMAIN vrs # {}
             s2 == IF bound THEN BindVars(s, r, vrs) ELSE s
         IN RunChain(s2, chain, j + 1, vrs, who,
                     Append(events, Invoke(chain[j], r, Vars(s2, r))),
                     IF bound THEN deferCall(deferred, r) ELSE deferred)

RECURSIVE RunDeferred(_, _)
\* The deferred calls, last one first.
RunDeferred(s, deferred) ==
    IF deferred = <<>> THEN s
    ELSE RunDeferred(deleteVars(s, Head(deferred)), Tail(deferred))

Response(meth, path, rt, status, events) ==
    [meth |-> meth, path |-> path, out |-> rt.out, status |-> status,
     location |-> rt.location, nd |-> rt.nd, vrs |-> rt.vrs, trail |-> rt.trail,
     chain |-> rt.chain, events |-> events]

NoResponse ==
    Response("", <<>>, Routed("none", <<>>, NoWalk, <<>>), 0, <<>>)

\* The outcomes of one whole ServeHTTP call: the response and the store.
Dispatch(rt, nf, s, meth, path, who) ==
    { IF d.out = "redirect"
      THEN [resp |-> Response(meth, path, d, 301, Redirect(d.location, 301)), s |-> s]
      ELSE IF d.out = "notfound"
      THEN [resp |-> Response(meth, path, d, 404, notFound(nf)), s |-> s]
      ELSE IF d.out = "panic"
      THEN [resp |-> Response(meth, path, d, 0, <<[ev |-> "panic"]>>), s |-> s]
      ELSE LET run == RunChain(s, d.chain, 1, d.vrs, who, <<>>, <<>>)
           IN [resp |-> Response(meth, path, d, 0, run.events),
               s |-> RunDeferred(run.s, run.deferred)]
    : d \in Route(rt, meth, path) }

----------------------------------------------------------------------------
(* The connection tracker and the listener, as New() leaves them *)

NumConns == 2       \* connections the transport can accept

\* New(): Timeout: 10 * time.Second
DefaultTimeout == 10

Conns == 1..NumConns

\* A connections value: the set conns, and its RWMutex as the connection
\* whose goroutine holds the write lock (0: none) and the number of read
\* locks held.
connections(conns, w, r) == [conns |-> conns, w |-> w, r |-> r]

\* A connection the transport has not accepted: st is the latest state
\* reported and pc where the ConnState call for it stands ("rest": it has
\* returned, or none was made); wasActive tells whether the connection was in
\* active.conns when a report of StateIdle began, and again whether a report
\* of StateActive followed a report of StateActive (both FALSE otherwise).
NoConn == [st |-> "none", pc |-> "rest", wasActive |-> FALSE, again |-> FALSE]

\* Close was not called: waits counts the timer waits, closedCalls the calls
\* of the Closed callback, hadActive tells whether active.conns was non-empty
\* when Close tested it; idleAtCall holds the connections whose latest
\* reported state was idle when Close was called and that had no ConnState
\* call since.
NoClose == [pc |-> "idle", waits |-> 0, closedCalls |-> 0, hadActive |-> FALSE,
            idleAtCall |-> {}]

InitTracker ==
    /\ Timeout = DefaultTimeout
    /\ listener = [closing |-> FALSE]
    /\ serving = [closing |-> FALSE]
    /\ ln = "none"
    /\ active = connections({}, 0, 0)
    /\ idle = connections({}, 0, 0)
    /\ conn = [c \in Conns |-> NoConn]
    /\ netClosed = {}
    /\ cls = NoClose

----------------------------------------------------------------------------
(* The sequential specification: registration calls and whole requests *)

\* A worker that is not inside ServeHTTP.
NoWorker ==
    [pc |-> "idle", meth |-> "", path |-> <<>>, out |-> "none", patt |-> <<>>,
     vrs |-> EmptyMap, chain |-> <<>>, j |-> 0, r |-> WithContext(0, 0),
     deferred |-> <<>>, events |-> <<>>, panicked |-> FALSE]

Init ==
    /\ root = [m \in {} |-> NewTree]
    /\ NotFound = FALSE
    /\ nreg = 0
    /\ regs = <<>>
    /\ pc = "idle"
    /\ resp = NoResponse
    /\ sessions = EmptyMap
    /\ mutex = 0
    /\ wk = [p \in Workers |-> NoWorker]
    /\ got = NoLookup
    /\ Timed = FALSE
    /\ InitTracker

\* One call of Mux.add, as the history keeps it
Reg(meth, patt, n) == [meth |-> meth, patt |-> patt, n |-> n]

\* Mux.GET(patt, handlers...)
GET(patt) ==
    /\ pc = "idle"
    /\ nreg < MaxRoutes
    /\ nreg' = nreg + 1
    /\ LET handlers == HandlerFuncs(nreg + 1)
       IN root' = add(add(root, "GET", patt, handlers), "HEAD", patt, handlers)
    /\ regs' = regs \o <<Reg("GET", patt, nreg + 1), Reg("HEAD", patt, nreg + 1)>>
    /\ UNCHANGED <<NotFound, pc, resp, sessions, mutex, wk>>
    /\ UNCHANGED <<lookupVars, connVars, logVars>>

\* Mux.HEAD(patt, handlers...); POST, PUT, ... and Add do the same with their method
HEAD(patt) ==
    /\ pc = "idle"
    /\ nreg < MaxRoutes
    /\ nreg' = nreg + 1
    /\ root' = add(root, "HEAD", patt, HandlerFuncs(nreg + 1))
    /\ regs' = Append(regs, Reg("HEAD", patt, nreg + 1))
    /\ UNCHANGED <<NotFound, pc, resp, sessions, mutex, wk>>
    /\ UNCHANGED <<lookupVars, connVars, logVars>>

\* rtr.NotFound = notFound
SetNotFound ==
    /\ pc = "idle"
    /\ ~NotFound
    /\ NotFound' = TRUE
    /\ UNCHANGED <<root, nreg, regs, pc, resp, sessions, mutex, wk>>
    /\ UNCHANGED <<lookupVars, connVars, logVars>>

\* One call of Mux.ServeHTTP, from entry to return
ServeHTTP(meth, path) ==
    /\ pc = "idle"
    /\ \E o \in Dispatch(root, NotFound, sessions, meth, path, 0) :
          /\ resp' = o.resp
          /\ sessions' = o.s
    /\ pc' = "done"
    /\ UNCHANGED <<root, NotFound, nreg, regs, mutex, wk>>
    /\ UNCHANGED <<lookupVars, connVars, logVars>>

\* The caller takes the response and is ready for the next call
Return ==
    /\ pc = "done"
    /\ pc' = "idle"
    /\ resp' = NoResponse
    /\ UNCHANGED <<root, NotFound, nreg, regs, sessions, mutex, wk>>
    /\ UNCHANGED <<lookupVars, connVars, logVars>>

Next ==
    \/ \E patt \in Patterns : GET(patt)
    \/ \E patt \in Patterns : HEAD(patt)
    \/ SetNotFound
    \/ \E meth \in Methods, path \in ReqPaths : ServeHTTP(meth, path)
    \/ Return

Spec == Init /\ [][Next]_vars

----------------------------------------------------------------------------
(* The concurrent specification: ServeHTTP calls of several workers,
   interleaved at the operations on the vars mutex *)

\* The routes of the concurrent specification and the requests made of it.
ServedRoutes == <<MkPath(<<sa, px>>), MkPath(<<sb>>)>>

ServedPaths ==
    { MkPath(<<sa, sa>>), MkPath(<<sa, sb>>), MkPath(<<sb>>), MkPath(<<sa>>),
      MkPath(<<sb>>) \o <<Slash>> }

RECURSIVE Registered(_)
\* The root map after GET was called for the first k served routes.
Registered(k) ==
    IF k = 0 THEN [m \in {} |-> NewTree]
    ELSE add(add(Registered(k - 1), "GET", ServedRoutes[k], HandlerFuncs(k)),
             "HEAD", ServedRoutes[k], HandlerFuncs(k))

RECURSIVE RegisteredCalls(_)
RegisteredCalls(k) ==
    IF k = 0 THEN <<>>
    ELSE RegisteredCalls(k - 1)
         \o <<Reg("GET", ServedRoutes[k], k), Reg("HEAD", ServedRoutes[k], k)>>

InitVars ==
    /\ root = Registered(Len(ServedRoutes))
    /\ NotFound \in BOOLEAN
    /\ nreg = Len(ServedRoutes)
    /\ regs = RegisteredCalls(Len(ServedRoutes))
    /\ pc = "idle"
    /\ resp = NoResponse
    /\ sessions = EmptyMap
    /\ mutex = 0
    /\ wk = [p \in Workers |-> NoWorker]
    /\ got = NoLookup
    /\ Timed = FALSE
    /\ InitTracker

\* The function returns (or unwinds): its deferred calls run, if any.
leave(w) == [w EXCEPT !.pc = IF w.deferred = <<>> THEN "done" ELSE "d_lock"]

\* The head of the handler loop for iteration j: past the chain the function
\* returns; else r = r.WithContext(ctx), and the binding is stored first when
\* there are bindings.
loopHead(p, w, j) ==
    IF j > Len(w.chain) THEN leave([w EXCEPT !.j = j])
    ELSE [w EXCEPT !.j = j, !.r = WithContext(p, j),
                   !.pc = IF DOMAIN w.vrs # {} THEN "lock" ELSE "call"]

\* ServeHTTP from its entry up to the first operation on the mutex or the
\* first handler call.
Begin(p, meth, path) ==
    /\ wk[p].pc = "idle"
    /\ \E d \in Route(root, meth, path) :
          LET w == [NoWorker EXCEPT !.meth = meth, !.path = path, !.out = d.out,
                                    !.vrs = d.vrs, !.chain = d.chain]
          IN wk' = [wk EXCEPT ![p] =
                IF d.out = "redirect"
                THEN [w EXCEPT !.pc = "done", !.events = Redirect(d.location, 301)]
                ELSE IF d.out = "notfound"
                THEN [w EXCEPT !.pc = "done", !.events = notFound(NotFound)]
                ELSE IF d.out = "panic"
                THEN [w EXCEPT !.pc = "done", !.panicked = TRUE]
                ELSE loopHead(p, [w EXCEPT !.patt = root[meth][d.nd[1]].handler[1].patt], 1)]
    /\ UNCHANGED <<root, NotFound, nreg, regs, pc, resp, sessions, mutex>>
    /\ UNCHANGED <<lookupVars, connVars, logVars>>

\* vars.Lock() before the binding is stored
VarsLock(p) ==
    /\ wk[p].pc = "lock"
    /\ mutex = 0
    /\ mutex' = p
    /\ wk' = [wk EXCEPT ![p].pc = "bind"]
    /\ UNCHANGED <<root, NotFound, nreg, regs, pc, resp, sessions>>
    /\ UNCHANGED <<lookupVars, connVars, logVars>>

\* vars.sessions[r] = vrs; vars.Unlock(); defer deleteVars(r)
BindUnlock(p) ==
    /\ wk[p].pc = "bind"
    /\ sessions' = BindVars(sessions, wk[p].r, wk[p].vrs)
    /\ mutex' = 0
    /\ wk' = [wk EXCEPT ![p].pc = "call",
                        ![p].deferred = deferCall(wk[p].deferred, wk[p].r)]
    /\ UNCHANGED <<root, NotFound, nreg, regs, pc, resp>>
    /\ UNCHANGED <<lookupVars, connVars, logVars>>

\* handler.ServeHTTP(w, r): the handler is entered and calls Vars(r), which
\* takes the mutex
HandlerCall(p) ==
    /\ wk[p].pc = "call"
    /\ mutex = 0
    /\ mutex' = p
    /\ wk' = [wk EXCEPT ![p].pc = "h_read"]
    /\ UNCHANGED <<root, NotFound, nreg, regs, pc, resp, sessions>>
    /\ UNCHANGED <<lookupVars, connVars, logVars>>

\* Vars reads the store and releases the mutex; the handler then returns, or
\* panics. After a return the call is logged when Timed is set.
HandlerReturn(p, panics) ==
    /\ wk[p].pc = "h_read"
    /\ mutex' = 0
    /\ LET w == wk[p]
           w2 == [w EXCEPT !.events =
                     Append(w.events, Invoke(w.chain[w.j], w.r, Vars(sessions, w.r)))]
           w3 == [w2 EXCEPT !.events = @ \o timedLog(Timed, w.r, w.meth, w.path)]
       IN wk' = [wk EXCEPT ![p] =
                    IF panics THEN leave([w2 EXCEPT !.panicked = TRUE])
                    ELSE loopHead(p, w3, w.j + 1)]
    /\ UNCHANGED <<root, NotFound, nreg, regs, pc, resp, sessions>>
    /\ UNCHANGED <<lookupVars, connVars, logVars>>

\* A deferred deleteVars(r): vars.Lock()
DeferredLock(p) ==
    /\ wk[p].pc = "d_lock"
    /\ mutex = 0
    /\ mutex' = p
    /\ wk' = [wk EXCEPT ![p].pc = "d_delete"]
    /\ UNCHANGED <<root, NotFound, nreg, regs, pc, resp, sessions>>
    /\ UNCHANGED <<lookupVars, connVars, logVars>>

\* delete(vars.sessions, r) and the deferred vars.Unlock()
DeferredDelete(p) ==
    /\ wk[p].pc = "d_delete"
    /\ sessions' = deleteVars(sessions, Head(wk[p].deferred))
    /\ mutex' = 0
    /\ wk' = [wk EXCEPT ![p] = leave([wk[p] EXCEPT !.deferred = Tail(wk[p].deferred)])]
    /\ UNCHANGED <<root, NotFound, nreg, regs, pc, resp>>
    /\ UNCHANGED <<lookupVars, connVars, logVars>>

\* The call is over; the worker takes its next request.
Finish(p) ==
    /\ wk[p].pc = "done"
    /\ wk' = [wk EXCEPT ![p] = NoWorker]
    /\ UNCHANGED <<root, NotFound, nreg, regs, pc, resp, sessions, mutex>>
    /\ UNCHANGED <<lookupVars, connVars, logVars>>

NextVars ==
    \/ \E p \in Workers, path \in ServedPaths : Begin(p, "GET", path)
    \/ \E p \in Workers : VarsLock(p)
    \/ \E p \in Workers : BindUnlock(p)
    \/ \E p \in Workers : HandlerCall(p)
    \/ \E p \in Workers, panics \in BOOLEAN : HandlerReturn(p, panics)
    \/ \E p \in Workers : DeferredLock(p)
    \/ \E p \in Workers : DeferredDelete(p)
    \/ \E p \in Workers : Finish(p)

SpecVars == InitVars /\ [][NextVars]_vars

\* The same calls on a Mux whose Timed field the caller has set or left unset.
InitTimed ==
    /\ root = Registered(Len(ServedRoutes))
    /\ NotFound = FALSE
    /\ nreg = Len(ServedRoutes)
    /\ regs = RegisteredCalls(Len(ServedRoutes))
    /\ pc = "idle"
    /\ resp = NoResponse
    /\ sessions = EmptyMap
    /\ mutex = 0
    /\ wk = [p \in Workers |-> NoWorker]
    /\ got = NoLookup
    /\ Timed \in BOOLEAN
    /\ InitTracker

SpecTimed == InitTimed /\ [][NextVars]_vars

----------------------------------------------------------------------------
(* Vocabulary of the properties *)

\* The segments of the request the sequential caller made.
ReqSegments == split(trim(resp.path, Slash), Slash)

IsNamed(seg) == Len(seg) > 0 /\ seg[1] = ":"

IsLiteralPattern(patt) ==
    \A seg \in {split(trim(patt, Slash), Slash)[k] : k \in 1..Len(split(trim(patt, Slash), Slash))} :
        seg # Star /\ ~IsNamed(seg)

\* The add calls made for the method of the request.
RegsOfMethod == {i \in 1..Len(regs) : regs[i].meth = resp.meth}

\* The response shows the handler funcs of the n-th registration call, each
\* called once, in order, and nothing else.
RanChainOf(n) ==
    /\ resp.out = "matched"
    /\ Len(resp.events) = ChainLen
    /\ \A j \in 1..ChainLen :
          /\ resp.events[j].ev = "handler"
          /\ resp.events[j].h = HandlerFuncs(n)[j]

NoHandlerRan == \A j \in 1..Len(resp.events) : resp.events[j].ev # "handler"

\* Every handler that ran saw the bindings b through Vars on its request.
AllSaw(b) ==
    \A j \in 1..Len(resp.events) :
        resp.events[j].ev = "handler" => resp.events[j].seen = b

\* The request follows the pattern segments parts up to their length:
\* equal on the literal segments, anything at the named ones.
FollowsPattern(parts, segs) ==
    /\ Len(segs) >= Len(parts)
    /\ \A k \in 1..Len(parts) : IsNamed(parts[k]) \/ parts[k] = segs[k]

\* The bindings a match of parts against segs is to produce.
BindingsOf(parts, segs) ==
    [nm \in {Tail(parts[k]) : k \in {i \in 1..Len(parts) : IsNamed(parts[i])}} |->
        segs[CHOOSE k \in 1..Len(parts) : parts[k] = <<":">> \o nm]]

\* The request is not one that the trailing-slash rule answers.
PlainRequest == pc = "done" /\ resp.out # "redirect"

----------------------------------------------------------------------------
(* C1 *)

\* C1: when every pattern registered for the request's method is literal and
\* the request path equals one of them, exactly the handler chain of (the
\* last registration of) that pattern runs -- whatever the registration order,
\* also when one pattern is a path prefix of another.
C1_LiteralRouted ==
    PlainRequest =>
        LET mine == RegsOfMethod
            same == {i \in mine : regs[i].patt = resp.path}
        IN ((\A i \in mine : IsLiteralPattern(regs[i].patt)) /\ same # {})
            => RanChainOf(regs[CHOOSE i \in same : \A j \in same : j <= i].n)

----------------------------------------------------------------------------
(* C2 *)

\* C2: when the only route of the method is a pattern with named segments and
\* no wildcard, a request with as many segments that equals the pattern on its
\* literal segments runs the pattern's handlers, and each of them reads from
\* Vars the request's segment under every parameter name.
C2_NamedBound ==
    PlainRequest =>
        \A i \in RegsOfMethod :
            LET parts == split(trim(regs[i].patt, Slash), Slash) IN
            ( /\ RegsOfMethod = {i}
              /\ \E k \in 1..Len(parts) : IsNamed(parts[k])
              /\ \A k \in 1..Len(parts) : parts[k] # Star
              /\ Len(parts) = Len(ReqSegments)
              /\ FollowsPattern(parts, ReqSegments) )
            => (RanChainOf(regs[i].n) /\ AllSaw(BindingsOf(parts, ReqSegments)))

----------------------------------------------------------------------------
(* C3 *)

\* C3: when the only route of the method is P/* (P not empty), a request that
\* follows P and then has zero or more further segments runs the wildcard
\* route's handlers.
C3_WildcardRouted ==
    PlainRequest =>
        \A i \in RegsOfMethod :
            LET parts == split(trim(regs[i].patt, Slash), Slash)
                P == SubSeq(parts, 1, Len(parts) - 1)
            IN ( /\ RegsOfMethod = {i}
                 /\ Len(parts) >= 2
                 /\ parts[Len(parts)] = Star
                 /\ \A k \in 1..Len(P) : P[k] # Star
                 /\ FollowsPattern(P, ReqSegments) )
               => RanChainOf(regs[i].n)

----------------------------------------------------------------------------
(* C4 *)

\* C4: when some segment of the request found no literal, no wildcard and no
\* named child at the node the lookup was at, the request is not matched: the
\* not-found path runs and no route handler is called.
C4_NoChildNotFound ==
    PlainRequest =>
        ((\E k \in 1..Len(resp.trail) : resp.trail[k].kind = "none")
            => (resp.out = "notfound" /\ NoHandlerRan))

----------------------------------------------------------------------------
(* C5 *)

\* The position the walk stood at after its last segment.
EndPos ==
    LET e == resp.trail[Len(resp.trail)] IN e.at \o <<e.key>>

\* C5: when every segment was taken by a literal or a named child and the
\* node reached by the last one has no handler and no wildcard child, the
\* request is answered 404 through the not-found path and ServeHTTP returns
\* normally.
C5_PassThroughNotFound ==
    PlainRequest =>
        ( ( /\ resp.trail # <<>>
            /\ Len(resp.trail) = Len(ReqSegments)
            /\ \A k \in 1..Len(resp.trail) : resp.trail[k].kind \in {"literal", "named"}
            /\ root[resp.meth][EndPos].handler = NilHandler
            /\ ~HasChild(root[resp.meth], EndPos, Star) )
          => (resp.out = "notfound" /\ resp.status = 404) )

----------------------------------------------------------------------------
(* C6 *)

\* C6: a request whose path is longer than one character and ends in '/' is
\* answered 301 with Location the path without its last character, for every
\* method, with no route handler, no NotFound handler and no binding; the
\* path "/" is not redirected.
C6_TrailingSlashRedirect ==
    pc = "done" =>
        LET l == Len(resp.path) IN
        /\ (l > 1 /\ resp.path[l] = Slash) =>
              /\ resp.status = 301
              /\ resp.events =
                    <<[ev |-> "Redirect", code |-> 301,
                       location |-> [k \in 1..(l - 1) |-> resp.path[k]]]>>
              /\ resp.vrs = EmptyMap
              /\ sessions = EmptyMap
        /\ resp.path = RootPath =>
              /\ resp.status # 301
              /\ \A j \in 1..Len(resp.events) : resp.events[j].ev # "Redirect"

\* A request for a method without any route was redirected to a shorter path.
C6_Witness ==
    /\ pc = "done"
    /\ resp.meth \notin DOMAIN root
    /\ resp.status = 301
    /\ Len(resp.events) = 1
    /\ resp.events[1].ev = "Redirect"
    /\ Len(resp.events[1].location) = Len(resp.path) - 1
    /\ Len(resp.path) > 2

----------------------------------------------------------------------------
(* C7 *)

\* C7: whenever the lookup ends not-matched, the status is 404: with a custom
\* NotFound handler, 404 is written and then the handler is called, once;
\* without one the default not-found response is sent. No route handler runs.
\* A request whose method has no route (and no trailing slash) is such a case.
C7_NotFound404 ==
    pc = "done" =>
        /\ resp.out = "notfound" =>
              /\ resp.status = 404
              /\ NoHandlerRan
              /\ resp.events =
                    IF NotFound
                    THEN <<[ev |-> "WriteHeader", code |-> 404], [ev |-> "NotFound"]>>
                    ELSE <<[ev |-> "http.NotFound", code |-> 404]>>
        /\ (resp.meth \notin DOMAIN root /\ resp.path[Len(resp.path)] # Slash) =>
              resp.out = "notfound"

\* A custom NotFound handler answered a request for a method without any route.
C7_Witness ==
    /\ pc = "done"
    /\ NotFound
    /\ resp.meth \notin DOMAIN root
    /\ resp.out = "notfound"
    /\ Len(resp.events) = 2
    /\ resp.events[2].ev = "NotFound"

----------------------------------------------------------------------------
(* C8 *)

----------------------------------------------------------------------------
(* C9 *)

\* The worker is at a read or a write of vars.sessions.
AtStoreAccess(p) == wk[p].pc \in {"bind", "h_read", "d_delete"}

\* C9: with requests served concurrently, every handler reads through Vars on
\* its own request exactly the bindings of that request's match (each named
\* segment of the matched pattern bound to this request's own segment, and no
\* binding at all for a pattern without named segments); a worker reads or
\* writes the store only while it holds the vars mutex, and does not hold the
\* mutex when it calls a handler.
C9_OwnBindingsOnly ==
    \A p \in Workers :
        /\ \A k \in 1..Len(wk[p].events) :
              wk[p].events[k].ev = "handler" =>
                  wk[p].events[k].seen =
                      BindingsOf(split(trim(wk[p].patt, Slash), Slash),
                                 split(trim(wk[p].path, Slash), Slash))
        /\ AtStoreAccess(p) => mutex = p
        /\ wk[p].pc = "call" => mutex # p

\* Two workers serve parameterized requests with different values at the same
\* time, and the handler of one has read its bindings while the other's
\* binding is in the store.
C9_Witness ==
    \E p \in Workers, q \in Workers :
        /\ p # q
        /\ wk[p].vrs # EmptyMap
        /\ wk[q].vrs # EmptyMap
        /\ wk[p].vrs # wk[q].vrs
        /\ \E k \in 1..Len(wk[p].events) : wk[p].events[k].ev = "handler"
        /\ \E r \in DOMAIN sessions : r.of = q
        /\ wk[q].pc = "h_read"

----------------------------------------------------------------------------
(* C10 *)

\* C10: once a ServeHTTP call is over, by return or by a handler's panic, the
\* store holds no entry for any request value of that call, the per-handler
\* copies included; so the store is empty whenever no call is in progress.
C10_ReleasedOnExit ==
    /\ \A p \in Workers :
          wk[p].pc \in {"done", "idle"} => \A r \in DOMAIN sessions : r.of # p
    /\ (\A p \in Workers : wk[p].pc \in {"done", "idle"}) => sessions = EmptyMap

\* A call that stored a binding for each of its handler copies ended by the
\* panic of its last handler.
C10_Witness ==
    \E p \in Workers :
        /\ wk[p].pc = "done"
        /\ wk[p].panicked
        /\ wk[p].vrs # EmptyMap
        /\ Len(wk[p].events) = ChainLen
        /\ ChainLen > 1

----------------------------------------------------------------------------
(* C14 *)

\* C14: after the same pattern was registered twice for a method (the second
\* call is not refused), no handler func of the first call runs any more, and
\* a request that ends at the pattern's node runs exactly the handler chain
\* of the latest call for that pattern.
C14_LastRegistrationWins ==
    PlainRequest =>
        \A i \in RegsOfMethod, j \in RegsOfMethod :
            (i < j /\ regs[i].patt = regs[j].patt /\ regs[i].n # regs[j].n) =>
                /\ \A k \in 1..Len(resp.events) :
                      resp.events[k].ev = "handler" => resp.events[k].h.reg # regs[i].n
                /\ ( /\ resp.out = "matched"
                     /\ root[resp.meth][resp.nd[1]].pattern = regs[j].patt
                     /\ \A l \in RegsOfMethod : (l > j) => regs[l].patt # regs[j].patt )
                   => RanChainOf(regs[j].n)

\* A pattern was registered twice for the method and a request for it ran the
\* handler chain of the second call.
C14_Witness ==
    /\ PlainRequest
    /\ resp.out = "matched"
    /\ \E i \in RegsOfMethod, j \in RegsOfMethod :
          /\ i < j
          /\ regs[i].patt = regs[j].patt
          /\ regs[i].n # regs[j].n
          /\ root[resp.meth][resp.nd[1]].pattern = regs[j].patt
          /\ RanChainOf(regs[j].n)

----------------------------------------------------------------------------
(* C19 *)

\* C19: every node of every method's tree has at most one "*" child and at
\* most one named child (a registration that would add a second, differently
\* named one is refused and changes nothing).
C19_OneNamedChild ==
    \A m \in DOMAIN root :
        \A pos \in DOMAIN root[m] :
            /\ Cardinality(NamedChildren(root[m], pos)) <= 1
            /\ Cardinality({k \in Children(root[m], pos) : k = Star}) <= 1

----------------------------------------------------------------------------
(* C20 *)

\* C20: for the routes registered, the request the caller made has one
\* possible outcome: every dispatch of it selects the same handler chain and
\* the same bindings.
C20_Deterministic ==
    PlainRequest =>
        \A d \in Route(root, resp.meth, resp.path) :
            d.chain = resp.chain /\ d.vrs = resp.vrs

----------------------------------------------------------------------------
(* The parameter store's lookup: handlers call Var on a store in which some
   requests are bound. *)

\* requests whose bindings are looked up
NumRequests == 2

LookupRequests == {WithContext(1, j) : j \in 1..NumRequests}

LookupNames == {<<"x">>, <<"y">>}

LookupValues == {sa, sb}

\* the bindings a request can have: ServeHTTP binds only when len(vrs) > 0
LookupMaps ==
    UNION {[names -> LookupValues] : names \in (SUBSET LookupNames) \ {{}}}

LookupStores ==
    UNION {[rs -> LookupMaps] : rs \in SUBSET LookupRequests}

InitLookup ==
    /\ root = [m \in {} |-> NewTree]
    /\ NotFound = FALSE
    /\ nreg = 0
    /\ regs = <<>>
    /\ pc = "idle"
    /\ resp = NoResponse
    /\ sessions \in LookupStores
    /\ mutex = 0
    /\ wk = [p \in Workers |-> NoWorker]
    /\ got = NoLookup
    /\ Timed = FALSE
    /\ InitTracker

\* A handler calls Var(r, n); session is what vars.sessions holds for r.
VarCall(r, n) ==
    /\ mutex = 0
    /\ got' = [made |-> TRUE, r |-> r, n |-> n,
               session |-> IF r \in DOMAIN sessions THEN <<sessions[r]>> ELSE <<>>,
               v |-> Var(sessions, r, n)]
    /\ UNCHANGED <<root, NotFound, nreg, regs, pc, resp, sessions, mutex, wk>>
    /\ UNCHANGED <<connVars, logVars>>

NextLookup ==
    \E r \in LookupRequests, n \in LookupNames : VarCall(r, n)

SpecLookup == InitLookup /\ [][NextLookup]_vars

----------------------------------------------------------------------------
(* C15 *)

\* C15: what a lookup returns tells the caller which case it was: a lookup
\* for a request with no bindings returns something no lookup of a name
\* missing from a request's bindings returns, and a bound name yields its
\* value.
C15_ThreeOutcomes ==
    got.made =>
        /\ (got.session = <<>>) =>
              \A s \in LookupStores, r \in LookupRequests, n \in LookupNames :
                  (r \in DOMAIN s /\ n \notin DOMAIN s[r]) => Var(s, r, n) # got.v
        /\ (got.session # <<>> /\ got.n \in DOMAIN got.session[1]) =>
              got.v = got.session[1][got.n]

----------------------------------------------------------------------------
(* The graceful server: Listen, the transport's ConnState calls, Close.
   Every ConnState call runs on the goroutine of its connection; the one for
   StateNew runs on the serve loop, before the next Accept. A critical
   section is two steps: taking the lock, then the update and the unlock. *)

\* the states the transport reports after StateNew
ConnStates == {"active", "idle", "closed", "hijacked"}

\* the values Mux.Timeout is given before Listen
Timeouts == {0, DefaultTimeout}

\* m.X.conns[conn] = struct{}{}
addConn(conns, c) == conns \cup {c}

\* A variant of deleteConn that removes nothing.
deleteConnNone(conns, c) == conns

\* delete(m.X.conns, conn)
deleteConn(conns, c) == conns \ {c}

\* RWMutex.Lock can proceed: no writer holds the lock, and no reader holds
\* it or has called RLock and waits for the writer to unlock
CanLock(l) == l.w = 0 /\ l.r = 0

\* A variant of CanRLock in which RLock never returns.
CanRLockNever(l) == FALSE

\* RWMutex.RLock returns: no writer holds the lock
CanRLock(l) == l.w = 0

\* A variant of drains that waits whenever the timeout is set.
drainsOnTimeout(timeout, conns) == timeout > 0

\* Close's test: m.Timeout > 0 && len(m.active.conns) > 0
drains(timeout, conns) == timeout > 0 /\ Cardinality(conns) > 0

\* the first call a ConnState callback makes for a state: where it waits
entry(state) ==
    CASE state \in {"new", "active"} -> "aLock"
      [] state = "idle" -> "iLock"
      [] state \in {"closed", "hijacked"} -> "raLock"

\* connections the serve loop has accepted
accepted == {c \in Conns : conn[c].st # "none"}

\* the ConnState callback is entered for c with the given state
callback(c, state) ==
    [conn EXCEPT ![c] = [st |-> state, pc |-> entry(state),
                         wasActive |-> state = "idle" /\ c \in active.conns,
                         again |-> state = "active" /\ conn[c].st = "active"]]

InitConn ==
    /\ root = [m \in {} |-> NewTree]
    /\ NotFound = FALSE
    /\ nreg = 0
    /\ regs = <<>>
    /\ pc = "idle"
    /\ resp = NoResponse
    /\ sessions = EmptyMap
    /\ mutex = 0
    /\ wk = [p \in Workers |-> NoWorker]
    /\ got = NoLookup
    /\ Timed = FALSE
    /\ Timeout \in Timeouts
    /\ listener = [closing |-> FALSE]
    /\ serving = [closing |-> FALSE]
    /\ ln = "none"
    /\ active = connections({}, 0, 0)
    /\ idle = connections({}, 0, 0)
    /\ conn = [c \in Conns |-> NoConn]
    /\ netClosed = {}
    /\ cls = NoClose

routerVars == <<root, NotFound, nreg, regs, pc, resp, sessions, mutex, wk, lookupVars,
                logVars>>

\* Listen: the listener is opened, m.listener is assigned and srv.Serve is
\* given the same ninjaListener value (a copy of it).
Listen ==
    /\ ln = "none"
    /\ ln' = "open"
    /\ listener' = [closing |-> FALSE]
    /\ serving' = listener'
    /\ UNCHANGED <<Timeout, active, idle, conn, netClosed, cls, routerVars>>

\* The serve loop calls Accept on its ninjaListener, which refuses when its
\* closing field is set and otherwise asks the net.Listener; the connection
\* accepted is reported with StateNew before the loop accepts again.
Accept(c) ==
    /\ ln = "open"
    /\ ~serving.closing
    /\ \A d \in Conns : ~(conn[d].st = "new" /\ conn[d].pc # "rest")
    /\ c \notin accepted
    /\ conn' = callback(c, "new")
    /\ UNCHANGED <<Timeout, listener, serving, ln, active, idle, netClosed, cls, routerVars>>

\* The transport reports a state of an accepted connection.
ConnState(c, state) ==
    /\ conn[c].st # "none"
    /\ conn[c].pc = "rest"
    /\ conn' = callback(c, state)
    /\ cls' = [cls EXCEPT !.idleAtCall = @ \ {c}]
    /\ UNCHANGED <<Timeout, listener, serving, ln, active, idle, netClosed, routerVars>>

\* m.active.Lock() of activeConnection and removeActiveConnection
ActiveLock(c) ==
    /\ conn[c].pc \in {"aLock", "raLock"}
    /\ CanLock(active)
    /\ active' = [active EXCEPT !.w = c]
    /\ conn' = [conn EXCEPT ![c].pc = IF @ = "aLock" THEN "aHeld" ELSE "raHeld"]
    /\ UNCHANGED <<Timeout, listener, serving, ln, idle, netClosed, cls, routerVars>>

\* activeConnection: the connection is added and the lock released; the
\* call goes on with removeIdleConnection.
activeConnection(c) ==
    /\ conn[c].pc = "aHeld"
    /\ active' = connections(addConn(active.conns, c), 0, active.r)
    /\ conn' = [conn EXCEPT ![c].pc = "riLock"]
    /\ UNCHANGED <<Timeout, listener, serving, ln, idle, netClosed, cls, routerVars>>

\* removeActiveConnection, called by removeConnection, which goes on with
\* removeIdleConnection.
removeActiveConnection(c) ==
    /\ conn[c].pc = "raHeld"
    /\ active' = connections(deleteConn(active.conns, c), 0, active.r)
    /\ conn' = [conn EXCEPT ![c].pc = "riLock"]
    /\ UNCHANGED <<Timeout, listener, serving, ln, idle, netClosed, cls, routerVars>>

\* m.idle.Lock() of idleConnection and removeIdleConnection
IdleLock(c) ==
    /\ conn[c].pc \in {"iLock", "riLock"}
    /\ CanLock(idle)
    /\ idle' = [idle EXCEPT !.w = c]
    /\ conn' = [conn EXCEPT ![c].pc = IF @ = "iLock" THEN "iHeld" ELSE "riHeld"]
    /\ UNCHANGED <<Timeout, listener, serving, ln, active, netClosed, cls, routerVars>>

\* idleConnection: the connection is added to idle.conns and deleted from it
\* again, the lock is released and the callback returns.
idleConnection(c) ==
    /\ conn[c].pc = "iHeld"
    /\ idle' = connections(deleteConn(addConn(idle.conns, c), c), 0, idle.r)
    /\ conn' = [conn EXCEPT ![c].pc = "rest"]
    /\ UNCHANGED <<Timeout, listener, serving, ln, active, netClosed, cls, routerVars>>

\* removeIdleConnection: the last call of activeConnection and of
\* removeConnection, after which the callback returns.
removeIdleConnection(c) ==
    /\ conn[c].pc = "riHeld"
    /\ idle' = connections(deleteConn(idle.conns, c), 0, idle.r)
    /\ conn' = [conn EXCEPT ![c].pc = "rest"]
    /\ UNCHANGED <<Timeout, listener, serving, ln, active, netClosed, cls, routerVars>>

\* Close is called on a listening Mux: m.listener.closing = true
Close ==
    /\ ln = "open"
    /\ cls.pc = "idle"
    /\ listener' = [listener EXCEPT !.closing = TRUE]
    /\ cls' = [cls EXCEPT !.pc = "rlockIdle",
                          !.idleAtCall = {c \in Conns : conn[c].st = "idle" /\ conn[c].pc = "rest"}]
    /\ UNCHANGED <<Timeout, serving, ln, active, idle, conn, netClosed, routerVars>>

\* m.idle.RLock(): the reader is counted at once; it has the lock unless a
\* writer holds it, and then gets it when that writer unlocks.
CloseRLockIdle ==
    /\ cls.pc = "rlockIdle"
    /\ idle' = [idle EXCEPT !.r = @ + 1]
    /\ cls' = [cls EXCEPT !.pc = IF CanRLock(idle) THEN "closeIdle" ELSE "rwaitIdle"]
    /\ UNCHANGED <<Timeout, listener, serving, ln, active, conn, netClosed, routerVars>>

\* m.idle.RLock() returns after the writer's Unlock
CloseRWaitIdle ==
    /\ cls.pc = "rwaitIdle"
    /\ CanRLock(idle)
    /\ cls' = [cls EXCEPT !.pc = "closeIdle"]
    /\ UNCHANGED <<Timeout, listener, serving, ln, active, idle, conn, netClosed, routerVars>>

\* conn.Close() for every member of idle.conns, then m.idle.RUnlock()
CloseIdleConns ==
    /\ cls.pc = "closeIdle"
    /\ netClosed' = netClosed \cup idle.conns
    /\ idle' = [idle EXCEPT !.r = @ - 1]
    /\ cls' = [cls EXCEPT !.pc = "rlockActive"]
    /\ UNCHANGED <<Timeout, listener, serving, ln, active, conn, routerVars>>

\* m.active.RLock(), like m.idle.RLock()
CloseRLockActive ==
    /\ cls.pc = "rlockActive"
    /\ active' = [active EXCEPT !.r = @ + 1]
    /\ cls' = [cls EXCEPT !.pc = IF CanRLock(active) THEN "check" ELSE "rwaitActive"]
    /\ UNCHANGED <<Timeout, listener, serving, ln, idle, conn, netClosed, routerVars>>

\* m.active.RLock() returns after the writer's Unlock
CloseRWaitActive ==
    /\ cls.pc = "rwaitActive"
    /\ CanRLock(active)
    /\ cls' = [cls EXCEPT !.pc = "check"]
    /\ UNCHANGED <<Timeout, listener, serving, ln, active, idle, conn, netClosed, routerVars>>

\* The test of Close: either a timer of length Timeout is started, or the
\* listener is closed at once.
CloseCheck ==
    /\ cls.pc = "check"
    /\ IF drains(Timeout, active.conns)
       THEN /\ cls' = [cls EXCEPT !.pc = "wait", !.waits = @ + 1,
                                  !.hadActive = active.conns # {}]
            /\ ln' = ln
       ELSE /\ cls' = [cls EXCEPT !.pc = "runlock", !.hadActive = active.conns # {}]
            /\ ln' = "closed"
    /\ UNCHANGED <<Timeout, listener, serving, active, idle, conn, netClosed, routerVars>>

\* <-timer.C, then m.listener.Close()
CloseTimer ==
    /\ cls.pc = "wait"
    /\ ln' = "closed"
    /\ cls' = [cls EXCEPT !.pc = "runlock"]
    /\ UNCHANGED <<Timeout, listener, serving, active, idle, conn, netClosed, routerVars>>

\* m.active.RUnlock()
CloseRUnlock ==
    /\ cls.pc = "runlock"
    /\ active' = [active EXCEPT !.r = @ - 1]
    /\ cls' = [cls EXCEPT !.pc = "closed"]
    /\ UNCHANGED <<Timeout, listener, serving, ln, idle, conn, netClosed, routerVars>>

\* m.Closed(m), and Close returns
CloseClosed ==
    /\ cls.pc = "closed"
    /\ cls' = [cls EXCEPT !.pc = "done", !.closedCalls = @ + 1]
    /\ UNCHANGED <<Timeout, listener, serving, ln, active, idle, conn, netClosed, routerVars>>

\* the steps of the goroutine that called Close
CloseStep ==
    \/ CloseRLockIdle
    \/ CloseRWaitIdle
    \/ CloseIdleConns
    \/ CloseRLockActive
    \/ CloseRWaitActive
    \/ CloseCheck
    \/ CloseTimer
    \/ CloseRUnlock
    \/ CloseClosed

\* the steps of the ConnState callback of connection c
ConnStep(c) ==
    \/ ActiveLock(c)
    \/ activeConnection(c)
    \/ removeActiveConnection(c)
    \/ IdleLock(c)
    \/ idleConnection(c)
    \/ removeIdleConnection(c)

NextConn ==
    \/ Listen
    \/ \E c \in Conns : Accept(c)
    \/ \E c \in Conns, state \in ConnStates : ConnState(c, state)
    \/ \E c \in Conns : ConnStep(c)
    \/ Close
    \/ CloseStep

SpecConn == InitConn /\ [][NextConn]_vars

\* The goroutines are scheduled, and the timer fires: a step of Close or of
\* a callback that stays possible is taken.
FairSpecConn ==
    /\ SpecConn
    /\ WF_vars(CloseStep)
    /\ \A c \in Conns : WF_vars(ConnStep(c))

----------------------------------------------------------------------------
(* Vocabulary of the properties of the graceful server *)

\* the ConnState call of c has returned (or none was made)
AtRest(c) == conn[c].pc = "rest"

\* the callback of c waits for, or holds, a lock
WaitsActive(c) == conn[c].pc \in {"aLock", "raLock"}

WaitsIdle(c) == conn[c].pc \in {"iLock", "riLock"}

\* Close holds a read lock of the tracker
CloseHoldsIdle == cls.pc = "closeIdle"

CloseHoldsActive == cls.pc \in {"check", "wait", "runlock"}

----------------------------------------------------------------------------
(* C11 *)

\* C11: when Close has returned, every connection whose latest reported
\* state was idle when Close was called (and that had no state reported
\* since) has been closed with conn.Close().
C11_IdleClosedByClose ==
    cls.pc = "done" => cls.idleAtCall \subseteq netClosed

----------------------------------------------------------------------------
(* C12 *)

\* C12: once Close has set m.listener.closing, no step accepts a
\* connection: every Accept of the serve loop is refused, also before the
\* net.Listener is closed.
C12_AcceptRefused ==
    [][listener.closing => accepted' = accepted]_vars

----------------------------------------------------------------------------
(* C13 *)

\* what holds of Close in every state
C13_CloseSafety ==
    /\ cls.waits <= 1
    /\ cls.closedCalls <= 1
    /\ cls.pc = "wait" => (Timeout > 0 /\ cls.hadActive /\ ln = "open")
    /\ cls.pc \in {"runlock", "closed", "done"} =>
          /\ ln = "closed"
          /\ cls.waits = IF Timeout > 0 /\ cls.hadActive THEN 1 ELSE 0
    /\ cls.closedCalls = IF cls.pc = "done" THEN 1 ELSE 0
    /\ cls.closedCalls > 0 => ln = "closed"

\* C13: Close closes the listener without a wait when Timeout is zero or
\* active.conns is empty when it is tested, and otherwise after exactly one
\* timer wait; the Closed callback runs once, after the listener is closed;
\* and a Close that was called returns.
C13_CloseDrains ==
    /\ []C13_CloseSafety
    /\ (cls.pc # "idle") ~> (cls.pc = "done")

\* Close has returned after one timer wait, made because a connection was
\* active.
C13_Witness ==
    /\ cls.pc = "done"
    /\ cls.waits = 1
    /\ cls.hadActive
    /\ cls.closedCalls = 1
    /\ ln = "closed"

----------------------------------------------------------------------------
(* C16 *)

\* C16: after StateIdle was reported for a connection that was in
\* active.conns, and the callback has returned, the connection is in
\* idle.conns and not in active.conns.
C16_IdleMovesConnection ==
    \A c \in Conns :
        (AtRest(c) /\ conn[c].st = "idle" /\ conn[c].wasActive) =>
            (c \in idle.conns /\ c \notin active.conns)

----------------------------------------------------------------------------
(* C17 *)

\* what holds of a connection whose callback has returned
C17_AtRest ==
    \A c \in Conns :
        AtRest(c) =>
            /\ ~(c \in active.conns /\ c \in idle.conns)
            /\ conn[c].st \in {"new", "active"} => c \in active.conns
            /\ conn[c].st \in {"closed", "hijacked"} =>
                  (c \notin active.conns /\ c \notin idle.conns)

\* a step of a callback that reports StateActive again changes no set
C17_RepeatedActive ==
    \A c \in Conns :
        (conn[c].again /\ ~AtRest(c) /\ conn'[c] # conn[c]) =>
            (active.conns' = active.conns /\ idle.conns' = idle.conns)

\* C17: whatever states are reported, in whatever order, a connection whose
\* callback has returned is never in both sets; it is in active.conns after
\* new or active (a repeated active changes neither set) and in neither set
\* after closed or hijacked.
C17_TrackerSets ==
    /\ []C17_AtRest
    /\ [][C17_RepeatedActive]_vars

\* One connection was reported closed and is in neither set while another,
\* reported active, is in active.conns.
C17_Witness ==
    \E c \in Conns, d \in Conns :
        /\ AtRest(c) /\ conn[c].st = "closed"
        /\ c \notin active.conns /\ c \notin idle.conns
        /\ AtRest(d) /\ conn[d].st = "active"
        /\ d \in active.conns

----------------------------------------------------------------------------
(* C18 *)

\* C18: while Close waits for its timer, it holds no lock of the tracker
\* that a callback is waiting for, so every callback can go on.
C18_DrainBlocksNobody ==
    cls.pc = "wait" =>
        \A c \in Conns :
            /\ WaitsActive(c) => ~CloseHoldsActive
            /\ WaitsIdle(c) => ~CloseHoldsIdle

----------------------------------------------------------------------------
(* The server as a whole: the ConnState callbacks and Close, and a handler
   goroutine that calls Var while they run. *)

\* the goroutine that calls Var: not one of the workers
LookupCaller == Cardinality(Workers) + 1

\* the request the handler goroutine was called with, and the name it asks for
LookupRequest == WithContext(1, 1)

LookupName == <<"x">>

\* Var(r, n) is called: vars.Lock()
VarLock(r, n) ==
    /\ mutex = 0
    /\ mutex' = LookupCaller
    /\ got' = [NoLookup EXCEPT !.r = r, !.n = n]
    /\ UNCHANGED <<root, NotFound, nreg, regs, pc, resp, sessions, wk>>
    /\ UNCHANGED <<connVars, logVars>>

\* Var reads vars.sessions and returns; its deferred vars.Unlock() runs
VarReturn ==
    /\ mutex = LookupCaller
    /\ mutex' = 0
    /\ got' = [made |-> TRUE, r |-> got.r, n |-> got.n,
               session |-> IF got.r \in DOMAIN sessions THEN <<sessions[got.r]>> ELSE <<>>,
               v |-> Var(sessions, got.r, got.n)]
    /\ UNCHANGED <<root, NotFound, nreg, regs, pc, resp, sessions, wk>>
    /\ UNCHANGED <<connVars, logVars>>

NextAll ==
    \/ NextConn
    \/ VarLock(LookupRequest, LookupName)
    \/ VarReturn

SpecAll == InitConn /\ [][NextAll]_vars

\* The goroutines are scheduled and the timer fires: a step that stays
\* possible is taken. A goroutine that waits in Lock is not passed over for
\* ever (a sync.Mutex that has waited hands the lock over in arrival order),
\* so a step of a callback that is possible again and again is taken.
FairSpecAll ==
    /\ SpecAll
    /\ WF_vars(CloseStep)
    /\ WF_vars(VarReturn)
    /\ \A c \in Conns : SF_vars(ConnStep(c))

----------------------------------------------------------------------------
(* C21 *)

\* the handler calls of worker p, in the order they were made
HandlerEvents(p) == SelectSeq(wk[p].events, LAMBDA e : e.ev = "handler")

\* the calls of m.Log of worker p
LogEvents(p) == SelectSeq(wk[p].events, LAMBDA e : e.ev = "Log")

\* the handler calls of worker p that have returned
Returned(p) == Len(HandlerEvents(p)) - (IF wk[p].panicked THEN 1 ELSE 0)

\* C21: in a call that matched, the handlers called so far are the first
\* ones of the route's chain, each once and in registration order; a handler
\* is called only when all the ones before it have returned, and a call
\* that returns has called the whole chain; every handler read the same
\* bindings, those of the match, through Vars on its request. With Timed
\* set, m.Log is called once for every handler that returned, right after
\* it and for its request; without Timed it is not called.
C21_ChainInOrder ==
    \A p \in Workers :
        wk[p].out = "matched" =>
            LET w == wk[p]
                hs == HandlerEvents(p)
                logs == LogEvents(p)
            IN /\ Len(hs) <= Len(w.chain)
               /\ \A i \in 1..Len(hs) :
                     /\ hs[i].h = w.chain[i]
                     /\ hs[i].r = WithContext(p, i)
                     /\ hs[i].seen = w.vrs
               /\ w.pc \in {"lock", "bind", "call", "h_read"} =>
                     (Len(hs) = w.j - 1 /\ Returned(p) = Len(hs))
               /\ (w.pc \in {"d_lock", "d_delete", "done"} /\ ~w.panicked) =>
                     Len(hs) = Len(w.chain)
               /\ Len(logs) = IF Timed THEN Returned(p) ELSE 0
               /\ Timed =>
                     \A i \in 1..Len(logs) :
                         /\ w.events[2 * i - 1] = hs[i]
                         /\ w.events[2 * i] = logs[i]
                         /\ logs[i].r = hs[i].r

\* With Timed set, a call has returned after its whole chain of more than one
\* handler ran with bindings, each handler logged after its return.
C21_Witness ==
    \E p \in Workers :
        /\ Timed
        /\ wk[p].pc = "done"
        /\ wk[p].out = "matched"
        /\ ~wk[p].panicked
        /\ wk[p].vrs # EmptyMap
        /\ Len(wk[p].chain) > 1
        /\ Len(HandlerEvents(p)) = Len(wk[p].chain)
        /\ Len(LogEvents(p)) = Len(wk[p].chain)

----------------------------------------------------------------------------
(* C22 *)

\* the locks goroutine g holds, g being a connection's callback
LocksOfConn(c) ==
    (IF active.w = c THEN {"active"} ELSE {}) \cup (IF idle.w = c THEN {"idle"} ELSE {})

\* the read locks Close holds
LocksOfClose ==
    (IF CloseHoldsActive THEN {"active"} ELSE {}) \cup (IF CloseHoldsIdle THEN {"idle"} ELSE {})

\* some call of a callback, of Var or of Close is under way
SomeCallPending ==
    \/ \E c \in Conns : ~AtRest(c)
    \/ cls.pc \notin {"idle", "done"}
    \/ mutex # 0

\* one of the calls under way can take a step
SomeCallCanStep ==
    ENABLED (CloseStep \/ VarReturn \/ \E c \in Conns : ConnStep(c))

\* no goroutine holds two locks, the locks are released in the order the
\* claim gives, and the calls under way are never all blocked
C22_OneLockAtATime ==
    /\ \A c \in Conns :
          /\ Cardinality(LocksOfConn(c)) <= 1
          /\ conn[c].pc \in {"riLock", "riHeld"} => active.w # c
          /\ AtRest(c) => LocksOfConn(c) = {}
    /\ Cardinality(LocksOfClose) <= 1
    /\ cls.pc \in {"rlockActive", "rwaitActive", "check", "wait", "runlock"} => idle.r = 0
    /\ cls.pc \in {"idle", "closed", "done"} => (idle.r = 0 /\ active.r = 0)
    /\ mutex \in {0, LookupCaller}
    /\ SomeCallPending => SomeCallCanStep

\* C22: no goroutine ever holds two of the three locks, so the callbacks,
\* the calls of Var and Close never block one another for ever: every
\* callback that began returns, every Var call returns, and a Close that was
\* called returns.
C22_NoDeadlock ==
    /\ []C22_OneLockAtATime
    /\ \A c \in Conns : (~AtRest(c)) ~> AtRest(c)
    /\ (mutex # 0) ~> (mutex = 0)
    /\ (cls.pc # "idle") ~> (cls.pc = "done")

\* Close waits for its timer holding the read lock of the active set while
\* one callback waits for that lock, another waits for the idle set's lock
\* and Var holds the vars mutex.
C22_Witness ==
    /\ cls.pc = "wait"
    /\ mutex = LookupCaller
    /\ \E c \in Conns, d \in Conns :
          /\ c # d
          /\ WaitsActive(c)
          /\ WaitsIdle(d)

====
